---- MODULE Spec2Model ----
(***************************************************************************)
(* Busca CEP Rapida (src/main.go): main races two HTTP lookups (BrasilAPI  *)
(* and ViaCEP) under a context with a 1 second timeout and reports the     *)
(* first event its select statement commits to.                            *)
(*                                                                         *)
(* Processes: the coordinator (main), one goroutine per source, and the    *)
(* runtime timer behind context.WithTimeout.  Channel operations follow    *)
(* the Go semantics: a select whose cases are ready on entry commits to    *)
(* any one of the ready cases; a select with no ready case parks, and the  *)
(* first sender (or the close of ctx.Done()) hands its event directly to   *)
(* the parked receiver.                                                    *)
(***************************************************************************)
EXTENDS Integers, Sequences, FiniteSets, TLC

VARIABLES mainPc, pc, ret, ctxErr, resultChan, errChan, sel, outcome,
          branches, hist

vars == <<mainPc, pc, ret, ctxErr, resultChan, errChan, sel, outcome,
          branches, hist>>

(* The two goroutines started by main: 1 calls buscaBrasilAPI, 2 calls     *)
(* buscaViaCEP.                                                            *)
Tasks == {1, 2}

Fonte(t) == IF t = 1 THEN "BrasilAPI" ELSE "ViaCEP"

cep == "06341650"

StatusOK == 200

(* make(chan Endereco, 2) and make(chan error, 2) *)
resultChanCap_one == 2 - 1

resultChanCap == 2

errChanCap == 2

(* ----------------------------- data ------------------------------------ *)

(* Endereco{} : the zero value returned next to a non-nil error. *)
EnderecoZero ==
    [CEP |-> "", Logradouro |-> "", Bairro |-> "", Cidade |-> "", UF |-> "",
     Fonte |-> ""]

(* error values; NilErr is Go's nil error. *)
NilErr == [kind |-> "nil", api |-> "", code |-> 0, cause |-> ""]

StatusErr(api, code) == [kind |-> "status", api |-> api, code |-> code, cause |-> ""]

DecodeErr == [kind |-> "decode", api |-> "", code |-> 0, cause |-> ""]

(* *url.Error returned by http.DefaultClient.Do: a transport failure, or   *)
(* the context's error when the request's context is done.                 *)
NetErr(api) == [kind |-> "net", api |-> api, code |-> 0, cause |-> ""]

CtxErr(api, cause) == [kind |-> "ctx", api |-> api, code |-> 0, cause |-> cause]

(* Decoded JSON payloads the two providers can answer with.  A field the   *)
(* payload lacks decodes to the empty string.                              *)
brasilAPIResponse ==
    { [cep |-> "06341655", state |-> "SP", city |-> "Barueri",
       neighborhood |-> "Vila Flora", street |-> "Rua Joao Marcos"],
      [cep |-> "", state |-> "", city |-> "", neighborhood |-> "", street |-> ""] }

viaCEPResponse ==
    { [cep |-> "06341-655", logradouro |-> "Rua Joao Marcos",
       bairro |-> "Vila Flora", localidade |-> "Barueri", uf |-> "SP"],
      [cep |-> "", logradouro |-> "", bairro |-> "", localidade |-> "", uf |-> ""] }

Statuses == {200, 404, 500}

(* What the network can deliver to one call of http.DefaultClient.Do and   *)
(* the following json Decode: a transport error, or a response with a      *)
(* status code and a body that either decodes to data or is malformed.     *)
HTTPReplies(Datas) ==
    [doErr : {TRUE}, StatusCode : {0}, decodes : {FALSE}, data : Datas]
    \cup [doErr : {FALSE}, StatusCode : Statuses, decodes : BOOLEAN, data : Datas]

(* buscaBrasilAPI, from the return of Do on. *)
buscaBrasilAPI(r) ==
    IF r.doErr THEN [end |-> EnderecoZero, err |-> NetErr("BrasilAPI")]
    ELSE IF r.StatusCode # StatusOK
         THEN [end |-> EnderecoZero, err |-> StatusErr("BrasilAPI", r.StatusCode)]
    ELSE IF ~r.decodes THEN [end |-> EnderecoZero, err |-> DecodeErr]
    ELSE [end |-> [CEP |-> r.data.cep, Logradouro |-> r.data.street,
                   Bairro |-> r.data.neighborhood, Cidade |-> r.data.city,
                   UF |-> r.data.state, Fonte |-> "BrasilAPI"],
          err |-> NilErr]

(* Variant of buscaViaCEP whose Endereco carries the other provider's name. *)
buscaViaCEP_fonte(r) ==
    IF r.doErr THEN [end |-> EnderecoZero, err |-> NetErr("ViaCEP")]
    ELSE IF r.StatusCode # StatusOK
         THEN [end |-> EnderecoZero, err |-> StatusErr("ViaCEP", r.StatusCode)]
    ELSE IF ~r.decodes THEN [end |-> EnderecoZero, err |-> DecodeErr]
    ELSE [end |-> [CEP |-> r.data.cep, Logradouro |-> r.data.logradouro,
                   Bairro |-> r.data.bairro, Cidade |-> r.data.localidade,
                   UF |-> r.data.uf, Fonte |-> "BrasilAPI"],
          err |-> NilErr]

(* buscaViaCEP, from the return of Do on. *)
buscaViaCEP(r) ==
    IF r.doErr THEN [end |-> EnderecoZero, err |-> NetErr("ViaCEP")]
    ELSE IF r.StatusCode # StatusOK
         THEN [end |-> EnderecoZero, err |-> StatusErr("ViaCEP", r.StatusCode)]
    ELSE IF ~r.decodes THEN [end |-> EnderecoZero, err |-> DecodeErr]
    ELSE [end |-> [CEP |-> r.data.cep, Logradouro |-> r.data.logradouro,
                   Bairro |-> r.data.bairro, Cidade |-> r.data.localidade,
                   UF |-> r.data.uf, Fonte |-> "ViaCEP"],
          err |-> NilErr]

(* The (Endereco, error) pairs a fetch of task t can return when the       *)
(* network answers.                                                        *)
FetchReturns(t) ==
    IF t = 1 THEN { buscaBrasilAPI(r) : r \in HTTPReplies(brasilAPIResponse) }
             ELSE { buscaViaCEP(r) : r \in HTTPReplies(viaCEPResponse) }

NoRet == [end |-> EnderecoZero, err |-> NilErr]

(* ---------------------------- outcomes --------------------------------- *)

NoSel == [case |-> "none", end |-> EnderecoZero, err |-> NilErr]

NoOutcome == [kind |-> "None", end |-> EnderecoZero, err |-> NilErr]

TimedOut == [kind |-> "TimedOut", end |-> EnderecoZero, err |-> NilErr]

Success(e) == [kind |-> "Success", end |-> e, err |-> NilErr]

Failure(e) == [kind |-> "Failure", end |-> EnderecoZero, err |-> e]

(* ------------------------- context and select -------------------------- *)

(* cancel(): the first cancellation cause sticks. *)
cancel_noop(c) == c

cancel(c) == IF c = "nil" THEN "Canceled" ELSE c

(* ctx.Done() is closed, hence ready to receive from. *)
Done == ctxErr # "nil"

Ev(e, t) == [ev |-> e, t |-> t]

(* The cases of main's select that can proceed without blocking. *)
ReadyCases ==
    (IF Done THEN {"done"} ELSE {})
    \cup (IF resultChan # <<>> THEN {"result"} ELSE {})
    \cup (IF errChan # <<>> THEN {"err"} ELSE {})

Init ==
    /\ mainPc = "start"
    /\ pc = [t \in Tasks |-> "idle"]
    /\ ret = [t \in Tasks |-> NoRet]
    /\ ctxErr = "nil"
    /\ resultChan = <<>>
    /\ errChan = <<>>
    /\ sel = NoSel
    /\ outcome = NoOutcome
    /\ branches = 0
    /\ hist = <<>>

(* ------------------------------- main ---------------------------------- *)

(* Variant of MainSetup that calls cancel() at once instead of deferring it. *)
MainSetup_cancel ==
    /\ mainPc = "start"
    /\ mainPc' = "go1"
    /\ ctxErr' = cancel(ctxErr)
    /\ UNCHANGED <<pc, ret, resultChan, errChan, sel, outcome, branches, hist>>

(* cep, context.WithTimeout, defer cancel(), the two make(chan ..., 2). *)
MainSetup ==
    /\ mainPc = "start"
    /\ mainPc' = "go1"
    /\ UNCHANGED <<pc, ret, ctxErr, resultChan, errChan, sel, outcome, branches, hist>>

(* go func() { buscaBrasilAPI ... }() *)
GoBrasilAPI ==
    /\ mainPc = "go1"
    /\ mainPc' = "go2"
    /\ pc' = [pc EXCEPT ![1] = "spawned"]
    /\ UNCHANGED <<ret, ctxErr, resultChan, errChan, sel, outcome, branches, hist>>

(* go func() { buscaViaCEP ... }() *)
GoViaCEP ==
    /\ mainPc = "go2"
    /\ mainPc' = "select"
    /\ pc' = [pc EXCEPT ![2] = "spawned"]
    /\ UNCHANGED <<ret, ctxErr, resultChan, errChan, sel, outcome, branches, hist>>

(* main enters the select.  With no ready case it parks on all three       *)
(* channels; otherwise it commits to one of the ready cases (Go picks      *)
(* uniformly at random among them) and receives that case's value.         *)
SelectEnter ==
    /\ mainPc = "select"
    /\ IF ReadyCases = {}
       THEN /\ mainPc' = "parked"
            /\ UNCHANGED <<resultChan, errChan, sel, hist>>
       ELSE \E c \in ReadyCases :
            /\ mainPc' = "case"
            /\ hist' = Append(hist, Ev("select", 0))
            /\ CASE c = "done" ->
                      /\ sel' = [NoSel EXCEPT !.case = "done"]
                      /\ UNCHANGED <<resultChan, errChan>>
                 [] c = "result" ->
                      /\ sel' = [NoSel EXCEPT !.case = "result", !.end = Head(resultChan)]
                      /\ resultChan' = Tail(resultChan)
                      /\ UNCHANGED errChan
                 [] c = "err" ->
                      /\ sel' = [NoSel EXCEPT !.case = "err", !.err = Head(errChan)]
                      /\ errChan' = Tail(errChan)
                      /\ UNCHANGED resultChan
    /\ UNCHANGED <<pc, ret, ctxErr, outcome, branches>>

(* case <-ctx.Done(): log the timeout. *)
CaseDone ==
    /\ mainPc = "case"
    /\ sel.case = "done"
    /\ outcome' = TimedOut
    /\ branches' = branches + 1
    /\ mainPc' = "defer"
    /\ UNCHANGED <<pc, ret, ctxErr, resultChan, errChan, sel, hist>>

(* case end := <-resultChan: cancel(), log the address. *)
CaseResult ==
    /\ mainPc = "case"
    /\ sel.case = "result"
    /\ ctxErr' = cancel(ctxErr)
    /\ outcome' = Success(sel.end)
    /\ branches' = branches + 1
    /\ mainPc' = "defer"
    /\ UNCHANGED <<pc, ret, resultChan, errChan, sel, hist>>

(* Variant of CaseErr that goes back to wait for the next event. *)
CaseErr_retry ==
    /\ mainPc = "case"
    /\ sel.case = "err"
    /\ ctxErr' = cancel(ctxErr)
    /\ outcome' = Failure(sel.err)
    /\ branches' = branches + 1
    /\ mainPc' = "select"
    /\ sel' = NoSel
    /\ UNCHANGED <<pc, ret, resultChan, errChan, hist>>

(* case err := <-errChan: cancel(), log the error. *)
CaseErr ==
    /\ mainPc = "case"
    /\ sel.case = "err"
    /\ ctxErr' = cancel(ctxErr)
    /\ outcome' = Failure(sel.err)
    /\ branches' = branches + 1
    /\ mainPc' = "defer"
    /\ UNCHANGED <<pc, ret, resultChan, errChan, sel, hist>>

(* Variant of MainReturn that first drains a result left in resultChan. *)
MainReturn_drain ==
    /\ mainPc = "defer"
    /\ ctxErr' = cancel(ctxErr)
    /\ mainPc' = "done"
    /\ IF resultChan # <<>>
       THEN /\ outcome' = Success(Head(resultChan))
            /\ resultChan' = Tail(resultChan)
       ELSE UNCHANGED <<outcome, resultChan>>
    /\ UNCHANGED <<pc, ret, errChan, sel, branches, hist>>

(* Variant of MainReturn that first waits for both goroutines to finish. *)
MainReturn_wait ==
    /\ mainPc = "defer"
    /\ \A t \in Tasks : pc[t] = "done"
    /\ ctxErr' = cancel(ctxErr)
    /\ mainPc' = "done"
    /\ UNCHANGED <<pc, ret, resultChan, errChan, sel, outcome, branches, hist>>

(* main returns: the deferred cancel() runs. *)
MainReturn ==
    /\ mainPc = "defer"
    /\ ctxErr' = cancel(ctxErr)
    /\ mainPc' = "done"
    /\ UNCHANGED <<pc, ret, resultChan, errChan, sel, outcome, branches, hist>>

(* ------------------------------ timer ---------------------------------- *)

(* Variant of TimerFire that records the expiry without waking a parked    *)
(* select.                                                                 *)
TimerFire_nowake ==
    /\ mainPc # "start"
    /\ ctxErr = "nil"
    /\ ctxErr' = "DeadlineExceeded"
    /\ hist' = Append(hist, Ev("deadline", 0))
    /\ UNCHANGED <<mainPc, sel, pc, ret, resultChan, errChan, outcome, branches>>

(* The 1 second timer of context.WithTimeout fires: ctx.Done() is closed   *)
(* with DeadlineExceeded, which wakes a parked select on its first case.   *)
TimerFire ==
    /\ mainPc # "start"
    /\ ctxErr = "nil"
    /\ ctxErr' = "DeadlineExceeded"
    /\ IF mainPc = "parked"
       THEN /\ mainPc' = "case"
            /\ sel' = [NoSel EXCEPT !.case = "done"]
            /\ hist' = hist \o <<Ev("deadline", 0), Ev("select", 0)>>
       ELSE /\ hist' = Append(hist, Ev("deadline", 0))
            /\ UNCHANGED <<mainPc, sel>>
    /\ UNCHANGED <<pc, ret, resultChan, errChan, outcome, branches>>

(* --------------------------- source tasks ------------------------------ *)

(* The goroutine runs and calls http.DefaultClient.Do: a request whose     *)
(* context is already done fails at once, otherwise it goes in flight.     *)
TaskStart(t) ==
    /\ pc[t] = "spawned"
    /\ IF Done
       THEN /\ ret' = [ret EXCEPT ![t] = [end |-> EnderecoZero,
                                         err |-> CtxErr(Fonte(t), ctxErr)]]
            /\ pc' = [pc EXCEPT ![t] = "report"]
       ELSE /\ pc' = [pc EXCEPT ![t] = "inflight"]
            /\ UNCHANGED ret
    /\ UNCHANGED <<mainPc, ctxErr, resultChan, errChan, sel, outcome, branches, hist>>

(* The provider answers (or the transport fails) and busca* returns. *)
FetchRespond(t) ==
    /\ pc[t] = "inflight"
    /\ \E r \in FetchReturns(t) : ret' = [ret EXCEPT ![t] = r]
    /\ pc' = [pc EXCEPT ![t] = "report"]
    /\ UNCHANGED <<mainPc, ctxErr, resultChan, errChan, sel, outcome, branches, hist>>

(* Variant of FetchAbort for a request built without the context: it never *)
(* observes the cancellation.                                              *)
FetchAbort_ignore(t) ==
    /\ pc[t] = "inflight"
    /\ Done
    /\ FALSE
    /\ UNCHANGED vars

(* The in-flight request observes its context done and busca* returns the  *)
(* context's error.                                                        *)
FetchAbort(t) ==
    /\ pc[t] = "inflight"
    /\ Done
    /\ ret' = [ret EXCEPT ![t] = [end |-> EnderecoZero,
                                  err |-> CtxErr(Fonte(t), ctxErr)]]
    /\ pc' = [pc EXCEPT ![t] = "report"]
    /\ UNCHANGED <<mainPc, ctxErr, resultChan, errChan, sel, outcome, branches, hist>>

(* A send on the channel can proceed: a receiver is parked in the select,  *)
(* or the buffer has room.                                                 *)
CanSendResult == mainPc = "parked" \/ Len(resultChan) < resultChanCap

CanSendErr == mainPc = "parked" \/ Len(errChan) < errChanCap

(* Variant of Report without the return after the send on errChan: the     *)
(* Endereco of a failed fetch is sent on resultChan as well.               *)
Report_noreturn(t) ==
    /\ pc[t] = "report"
    /\ IF ret[t].err # NilErr
       THEN /\ CanSendErr
            /\ Len(resultChan) < resultChanCap
            /\ resultChan' = Append(resultChan, ret[t].end)
            /\ IF mainPc = "parked"
               THEN /\ mainPc' = "case"
                    /\ sel' = [NoSel EXCEPT !.case = "err", !.err = ret[t].err]
                    /\ hist' = hist \o <<Ev("err", t), Ev("select", 0)>>
                    /\ UNCHANGED errChan
               ELSE /\ errChan' = Append(errChan, ret[t].err)
                    /\ hist' = Append(hist, Ev("err", t))
                    /\ UNCHANGED <<mainPc, sel>>
       ELSE /\ CanSendResult
            /\ IF mainPc = "parked"
               THEN /\ mainPc' = "case"
                    /\ sel' = [NoSel EXCEPT !.case = "result", !.end = ret[t].end]
                    /\ hist' = hist \o <<Ev("result", t), Ev("select", 0)>>
                    /\ UNCHANGED <<resultChan, errChan>>
               ELSE /\ resultChan' = Append(resultChan, ret[t].end)
                    /\ hist' = Append(hist, Ev("result", t))
                    /\ UNCHANGED <<mainPc, sel, errChan>>
    /\ pc' = [pc EXCEPT ![t] = "done"]
    /\ UNCHANGED <<ret, ctxErr, outcome, branches>>

(* if err != nil { errChan <- err; return }; resultChan <- end *)
Report(t) ==
    /\ pc[t] = "report"
    /\ IF ret[t].err # NilErr
       THEN /\ CanSendErr
            /\ IF mainPc = "parked"
               THEN /\ mainPc' = "case"
                    /\ sel' = [NoSel EXCEPT !.case = "err", !.err = ret[t].err]
                    /\ hist' = hist \o <<Ev("err", t), Ev("select", 0)>>
                    /\ UNCHANGED <<resultChan, errChan>>
               ELSE /\ errChan' = Append(errChan, ret[t].err)
                    /\ hist' = Append(hist, Ev("err", t))
                    /\ UNCHANGED <<mainPc, sel, resultChan>>
       ELSE /\ CanSendResult
            /\ IF mainPc = "parked"
               THEN /\ mainPc' = "case"
                    /\ sel' = [NoSel EXCEPT !.case = "result", !.end = ret[t].end]
                    /\ hist' = hist \o <<Ev("result", t), Ev("select", 0)>>
                    /\ UNCHANGED <<resultChan, errChan>>
               ELSE /\ resultChan' = Append(resultChan, ret[t].end)
                    /\ hist' = Append(hist, Ev("result", t))
                    /\ UNCHANGED <<mainPc, sel, errChan>>
    /\ pc' = [pc EXCEPT ![t] = "done"]
    /\ UNCHANGED <<ret, ctxErr, outcome, branches>>

(* --------------------------- specification ----------------------------- *)

MainStep ==
    \/ MainSetup
    \/ GoBrasilAPI
    \/ GoViaCEP
    \/ SelectEnter
    \/ CaseDone
    \/ CaseResult
    \/ CaseErr
    \/ MainReturn

TaskStep ==
    \/ \E t \in Tasks : TaskStart(t)
    \/ \E t \in Tasks : FetchRespond(t)
    \/ \E t \in Tasks : FetchAbort(t)
    \/ \E t \in Tasks : Report(t)

Next == MainStep \/ TimerFire \/ TaskStep

Spec == Init /\ [][Next]_vars

(* The Go scheduler runs every runnable goroutine eventually and the       *)
(* runtime fires an armed timer; nothing obliges a provider to answer.     *)
LiveSpec == Spec /\ WF_vars(MainStep) /\ WF_vars(TimerFire)

(* The source goroutines are scheduled fairly and their requests honour    *)
(* the context; still nothing obliges a provider to answer.                *)
TaskLiveSpec ==
    /\ Spec
    /\ \A t \in Tasks :
          WF_vars(TaskStart(t)) /\ WF_vars(FetchAbort(t)) /\ WF_vars(Report(t))

(* ----------------------------- properties ------------------------------ *)

(* Position of event e in the history, 0 when it has not happened. *)
Pos(e) ==
    IF \E i \in DOMAIN hist : hist[i] = e
    THEN CHOOSE i \in DOMAIN hist : hist[i] = e
    ELSE 0

(* e1 has happened, and e2 has not or happened later. *)
Before(e1, e2) == Pos(e1) > 0 /\ (Pos(e2) = 0 \/ Pos(e1) < Pos(e2))

Deadline == Ev("deadline", 0)

Selected == Ev("select", 0)

(* Position of task t's report on either channel, 0 when it has not sent. *)
ReportPos(t) == IF Pos(Ev("result", t)) > 0 THEN Pos(Ev("result", t)) ELSE Pos(Ev("err", t))

IsPrefix(s, t) == Len(s) <= Len(t) /\ SubSeq(t, 1, Len(s)) = s

(* C1: main executes at most one branch of the select, has executed        *)
(* exactly one and holds an Outcome when it returns, and an Outcome once   *)
(* set never changes, whatever the sources report afterwards.              *)
C1_ExactlyOneOutcome ==
    [][ /\ branches' <= 1
        /\ (outcome # NoOutcome => outcome' = outcome)
        /\ (mainPc' = "done" => branches' = 1 /\ outcome' # NoOutcome) ]_vars

(* C1 witness: main has returned with its Outcome after both sources       *)
(* reported, so one report was left unread.                                *)
C1_Witness ==
    /\ mainPc = "done"
    /\ branches = 1
    /\ \A t \in Tasks : pc[t] = "done"
    /\ Len(resultChan) + Len(errChan) = 1

(* C2: when both sources succeed, a's result is sent before b's and b's    *)
(* before the deadline fires, the Outcome is Success with a's Endereco.    *)
C2_FastestSuccessWins ==
    \A a, b \in Tasks :
        ( /\ a # b
          /\ Pos(Ev("result", a)) > 0
          /\ Pos(Ev("result", a)) < Pos(Ev("result", b))
          /\ Before(Ev("result", b), Deadline)
          /\ outcome # NoOutcome )
        => outcome = Success(ret[a].end)

(* C3: a result sent on resultChan before the deadline fired is never      *)
(* answered with TimedOut.                                                 *)
C3_NoFalseTimeout ==
    ( /\ outcome # NoOutcome
      /\ \E t \in Tasks : Before(Ev("result", t), Deadline) )
    => outcome.kind # "TimedOut"

(* C4: when the deadline fired before any source reported a result or an   *)
(* error, the Outcome is TimedOut.                                         *)
C4_TimeoutDominance ==
    ( /\ Pos(Deadline) > 0
      /\ \A t \in Tasks : ReportPos(t) = 0 \/ Pos(Deadline) < ReportPos(t)
      /\ outcome # NoOutcome )
    => outcome = TimedOut

(* C5: whenever the select commits to the errChan case, resultChan holds   *)
(* no result.                                                              *)
C5_FailureOnlyWithoutSuccess ==
    [][ (sel.case = "none" /\ sel'.case = "err") => resultChan = <<>> ]_vars

(* C6: when the first event of the race is task t's error (sent before any *)
(* result and before the deadline), the Outcome is Failure with that error.*)
C6_FirstErrorTerminates ==
    \A t \in Tasks :
        ( /\ hist # <<>>
          /\ hist[1] = Ev("err", t)
          /\ outcome # NoOutcome )
        => outcome = Failure(ret[t].err)

(* The Outcome the committed select case leads to. *)
OutcomeOf(s) ==
    CASE s.case = "done" -> TimedOut
      [] s.case = "result" -> Success(s.end)
      [] s.case = "err" -> Failure(s.err)
      [] OTHER -> NoOutcome

(* C7: once the select has committed, main receives nothing more: the      *)
(* committed case stays, what sources send later only accumulates in the   *)
(* channels, and the Outcome is the one of the committed case.             *)
C7_LateArrivalDiscard ==
    [][ sel.case # "none" =>
          /\ sel' = sel
          /\ IsPrefix(resultChan, resultChan')
          /\ IsPrefix(errChan, errChan')
          /\ outcome' \in {NoOutcome, OutcomeOf(sel)}
          /\ (outcome # NoOutcome => outcome' = outcome) ]_vars

(* C7 witness: a source reported after the select had committed, main has  *)
(* returned and the late report sits unread in its channel.                *)
C7_Witness ==
    /\ mainPc = "done"
    /\ \E t \in Tasks : Pos(Selected) > 0 /\ ReportPos(t) > Pos(Selected)
    /\ Len(resultChan) + Len(errChan) > 0
    /\ outcome = OutcomeOf(sel)

(* C8: when main has returned with its Outcome, ctx is done.               *)
C8_ResolvedImpliesCancelled ==
    (outcome # NoOutcome /\ mainPc = "done") => Done

(* C8 witness: main returned a Success while the other request is still in *)
(* flight, and no deadline fired.                                          *)
C8_Witness ==
    /\ mainPc = "done"
    /\ outcome.kind = "Success"
    /\ ctxErr = "Canceled"
    /\ \E t \in Tasks : pc[t] = "inflight"

(* C9: neither channel ever holds more than its capacity, and a task that  *)
(* is about to report can always complete its send.                        *)
C9_NoBlockedSender ==
    /\ Len(resultChan) <= resultChanCap
    /\ Len(errChan) <= errChanCap
    /\ \A t \in Tasks :
          pc[t] = "report" =>
             IF ret[t].err # NilErr THEN CanSendErr ELSE CanSendResult

(* C9 witness: main has returned, one unread result is buffered and the    *)
(* other task is about to send a second one.                               *)
C9_Witness ==
    /\ mainPc = "done"
    /\ Len(resultChan) = 1
    /\ \E t \in Tasks : pc[t] = "report" /\ ret[t].err = NilErr

(* C10: with main and the timer scheduled fairly, main eventually returns, *)
(* whether or not a source ever answers.                                   *)
C10_RaceTerminates == <>(mainPc = "done")

(* C10 witness: main returned TimedOut while both requests are still in    *)
(* flight.                                                                 *)
C10_Witness ==
    /\ mainPc = "done"
    /\ outcome = TimedOut
    /\ \A t \in Tasks : pc[t] = "inflight"

C12_NoWaitForLosers ==
    mainPc \in {"case", "defer"} => ENABLED MainStep

(* C12 witness: main has returned a Failure while the other source is      *)
(* still inside its fetch.                                                 *)
C12_Witness ==
    /\ mainPc = "done"
    /\ outcome.kind = "Failure"
    /\ \E t \in Tasks : pc[t] = "inflight"

(* The values sitting in a channel. *)
Range(q) == { q[i] : i \in DOMAIN q }

(* C14: a fetch that returned an error is reported on errChan only: its    *)
(* task never sends on resultChan, and no zero or Fonte-less Endereco is   *)
(* ever in resultChan or received from it.                                 *)
C14_FailedFetchOnlyError ==
    /\ \A t \in Tasks :
          ret[t].err # NilErr =>
             /\ ret[t].end = EnderecoZero
             /\ Pos(Ev("result", t)) = 0
             /\ (pc[t] = "done" => Pos(Ev("err", t)) > 0)
    /\ \A e \in Range(resultChan) : e # EnderecoZero /\ e.Fonte # ""
    /\ sel.case = "result" => (sel.end # EnderecoZero /\ sel.end.Fonte # "")

(* C14 witness: one fetch failed on a non-200 status, the other on a body  *)
(* that does not decode; both were reported and resultChan stayed empty.   *)
C14_Witness ==
    /\ \A t \in Tasks : pc[t] = "done"
    /\ ret[1].err = StatusErr("BrasilAPI", 404)
    /\ ret[2].err = DecodeErr
    /\ resultChan = <<>>
    /\ Len(errChan) + (IF sel.case = "err" THEN 1 ELSE 0) = 2

(* C15: an Endereco sent by a task carries that task's provider name, and  *)
(* a Success outcome is the Endereco of a task that sent it before the     *)
(* select committed.                                                       *)
C15_SuccessNamesItsSource ==
    /\ \A t \in Tasks :
          Pos(Ev("result", t)) > 0 => ret[t].end.Fonte = Fonte(t)
    /\ \A e \in Range(resultChan) :
          \E t \in Tasks : Pos(Ev("result", t)) > 0 /\ e = ret[t].end
    /\ outcome.kind = "Success" =>
          \E t \in Tasks :
             /\ Pos(Ev("result", t)) > 0
             /\ Pos(Ev("result", t)) < Pos(Selected)
             /\ outcome.end = ret[t].end
             /\ outcome.end.Fonte = Fonte(t)

(* C15 witness: the Outcome is ViaCEP's Endereco while BrasilAPI's later   *)
(* result sits unread in resultChan.                                       *)
C15_Witness ==
    /\ outcome.kind = "Success"
    /\ outcome.end.Fonte = "ViaCEP"
    /\ outcome.end.Cidade = "Barueri"
    /\ Len(resultChan) = 1
    /\ resultChan[1].Fonte = "BrasilAPI"

(* Number of reports task t has made, on either channel. *)
Reports(t) ==
    Cardinality({ i \in DOMAIN hist : hist[i].t = t /\ hist[i].ev \in {"result", "err"} })

(* Messages ever sent: those still buffered plus the one main received. *)
Enqueued ==
    Len(resultChan) + Len(errChan) + (IF sel.case \in {"result", "err"} THEN 1 ELSE 0)

(* C16: a task sends at most once, exactly once when it has exited, on one *)
(* channel only, so at most two messages are ever sent.                    *)
C16_OneReportPerTask ==
    /\ \A t \in Tasks :
          /\ Reports(t) <= 1
          /\ (pc[t] = "done" <=> Reports(t) = 1)
          /\ ~(Pos(Ev("result", t)) > 0 /\ Pos(Ev("err", t)) > 0)
    /\ Enqueued = Reports(1) + Reports(2)
    /\ Enqueued <= 2

(* C16 witness: both tasks have exited, one after sending a result and the *)
(* other after sending an error.                                           *)
C16_Witness ==
    /\ \A t \in Tasks : pc[t] = "done"
    /\ Pos(Ev("result", 1)) > 0
    /\ Pos(Ev("err", 2)) > 0
    /\ Enqueued = 2

(* C17: the ctx.Done() case is committed to only after the timer fired:    *)
(* while the select has not committed to resultChan or errChan the context *)
(* is never cancelled explicitly, and TimedOut means DeadlineExceeded.     *)
C17_TimedOutMeansDeadline ==
    /\ ctxErr = "Canceled" => sel.case \in {"result", "err"}
    /\ sel.case = "done" => (ctxErr = "DeadlineExceeded" /\ Before(Deadline, Selected))
    /\ outcome = TimedOut => (ctxErr = "DeadlineExceeded" /\ Before(Deadline, Selected))

(* C17 witness: main returned TimedOut after the timer fired, both tasks   *)
(* having reported the deadline error afterwards.                          *)
C17_Witness ==
    /\ mainPc = "done"
    /\ outcome = TimedOut
    /\ ctxErr = "DeadlineExceeded"
    /\ \A t \in Tasks : pc[t] = "done" /\ ret[t].err = CtxErr(Fonte(t), "DeadlineExceeded")

====
